---------------------------- MODULE Spec2Model ----------------------------
(***************************************************************************)
(* A model of the feedback classifier (src/feedback_classifier.py): the   *)
(* tokenizer, the char-repetition normalizer, the abusive prefix trie,    *)
(* the obfuscation patterns, the sentiment scorer and is_abusive.         *)
(*                                                                         *)
(* A character is a one-character string; a character outside ASCII is    *)
(* written by its code point ("U1F595" is the middle-finger emoji).  A     *)
(* Python str is the sequence of its characters.                           *)
(***************************************************************************)
EXTENDS Integers, Sequences, FiniteSets, TLC

VARIABLES
    stopwords,        \* module global, feedback_classifier.py:10
    positive_words,   \* module global, feedback_classifier.py:14
    negative_words,   \* module global, feedback_classifier.py:17
    safe_words,       \* module global, feedback_classifier.py:145
    trie,             \* module global, feedback_classifier.py:147 / Trie under test
    patterns,         \* module global, feedback_classifier.py:177
    calls,            \* the is_abusive calls in progress, one record per caller
    inserted,         \* history: the words given to Trie.insert so far
    query,            \* the last search_prefix call since the last insert: its
                      \* token and its result
    norm,             \* the normalize_repeated_chars call under test
    rx,               \* the create_obfuscation_regex / fullmatch call under test
    sent              \* the analyze_sentiment call under test

vars == <<stopwords, positive_words, negative_words, safe_words, trie, patterns,
          calls, inserted, query, norm, rx, sent>>

---------------------------------------------------------------------------
(* Characters *)

UpperCase == <<"A","B","C","D","E","F","G","H","I","J","K","L","M",
               "N","O","P","Q","R","S","T","U","V","W","X","Y","Z">>
LowerCase == <<"a","b","c","d","e","f","g","h","i","j","k","l","m",
               "n","o","p","q","r","s","t","u","v","w","x","y","z">>
Digits == {"0","1","2","3","4","5","6","7","8","9"}

Range(s) == {s[i] : i \in DOMAIN s}

\* str.lower() on one character
LowerChar(c) ==
    IF \E i \in DOMAIN UpperCase : UpperCase[i] = c
    THEN LowerCase[CHOOSE i \in DOMAIN UpperCase : UpperCase[i] = c]
    ELSE c

\* str.lower()
Lower(s) == [i \in DOMAIN s |-> LowerChar(s[i])]

\* the characters str.strip() removes
Whitespace == {" ", "\t", "\n"}

RECURSIVE LStrip(_)
LStrip(s) == IF s # <<>> /\ Head(s) \in Whitespace THEN LStrip(Tail(s)) ELSE s

RECURSIVE RStrip(_)
RStrip(s) ==
    IF s # <<>> /\ s[Len(s)] \in Whitespace THEN RStrip(SubSeq(s, 1, Len(s) - 1)) ELSE s

\* str.strip()
Strip(s) == RStrip(LStrip(s))

\* the regex class \w restricted to the characters of the model: letters, digits, "_"
IsWordChar(c) == c \in Range(LowerCase) \cup Range(UpperCase) \cup Digits \cup {"_"}

---------------------------------------------------------------------------
(* normalize_repeated_chars, feedback_classifier.py:23-47 *)

\* prev_char = None compares unequal to every character
None == "None"

\* a variant of line 44 that keeps one character of a run
KeepCharOnce(repeat_count) == repeat_count < 2

\* line 44: keep the char if it occurs at most twice consecutively
KeepChar(repeat_count) == repeat_count <= 2

\* the for loop of lines 36-45, from position i on
RECURSIVE NormLoop(_, _, _, _, _)
NormLoop(word, i, prev_char, repeat_count, result_chars) ==
    IF i > Len(word) THEN result_chars
    ELSE LET char == word[i]
             count == IF char = prev_char THEN repeat_count + 1 ELSE 1
         IN  NormLoop(word, i + 1, char, count,
                      IF KeepChar(count) THEN Append(result_chars, char)
                                         ELSE result_chars)

normalize_repeated_chars(word) ==
    IF word = <<>> THEN word ELSE NormLoop(word, 1, None, 0, <<>>)

---------------------------------------------------------------------------
(* difflib.SequenceMatcher(None, a, b).ratio() as lines 222-223, 228-229 use it *)

\* the length of the common run of a from i and b from j, within a[..ahi], b[..bhi]
RECURSIVE RunLen(_, _, _, _, _, _)
RunLen(a, b, i, j, ahi, bhi) ==
    IF i > ahi \/ j > bhi \/ a[i] # b[j] THEN 0
    ELSE 1 + RunLen(a, b, i + 1, j + 1, ahi, bhi)

\* find_longest_match: the longest block, the earliest in a, then the earliest in b
FindLongestMatch(a, b, alo, ahi, blo, bhi) ==
    LET blocks == {<<i, j, RunLen(a, b, i, j, ahi, bhi)>> : i \in alo..ahi, j \in blo..bhi}
        Better(x, y) ==
            \/ x[3] > y[3]
            \/ x[3] = y[3] /\ x[1] < y[1]
            \/ x[3] = y[3] /\ x[1] = y[1] /\ x[2] <= y[2]
    IN  IF blocks = {} THEN <<alo, blo, 0>>
        ELSE CHOOSE x \in blocks : \A y \in blocks : Better(x, y)

\* the total size of get_matching_blocks over a[alo..ahi], b[blo..bhi]
RECURSIVE MatchedChars(_, _, _, _, _, _)
MatchedChars(a, b, alo, ahi, blo, bhi) ==
    IF alo > ahi \/ blo > bhi THEN 0
    ELSE LET m == FindLongestMatch(a, b, alo, ahi, blo, bhi)
         IN  IF m[3] = 0 THEN 0
             ELSE m[3] + MatchedChars(a, b, alo, m[1] - 1, blo, m[2] - 1)
                       + MatchedChars(a, b, m[1] + m[3], ahi, m[2] + m[3], bhi)

\* ratio() as the fraction <<2 * matches, length>>; both strings empty gives 1.0
Ratio(a, b) ==
    IF Len(a) + Len(b) = 0 THEN <<1, 1>>
    ELSE <<2 * MatchedChars(a, b, 1, Len(a), 1, Len(b)), Len(a) + Len(b)>>

\* sim >= 0.8
AtThreshold(sim) == 10 * sim[1] >= 8 * sim[2]

---------------------------------------------------------------------------
(* The word lists *)

\* lines 127-143; "bhenchod" "bhosdike" has no comma between its two literals,
\* so Python concatenates them into one entry
abusive_words == <<
    <<"c","h","u","t">>, <<"c","h","u">>, <<"c","h","o","d","u">>, <<"m","a","d","a","r">>,
    <<"b","e","h","e","n","c","h","o","d">>,
    <<"b","h","e","n","c","h","o","d","b","h","o","s","d","i","k","e">>,
    <<"r","a","n","d","i">>, <<"h","a","r","a","m","i">>, <<"g","a","n","d">>,
    <<"l","o","d","u">>, <<"l","a","u","d","e">>, <<"l","a","v","d","e">>,
    <<"l","a","u","d","a">>, <<"l","o","d","a">>, <<"l","u","n","d">>,
    <<"t","a","t","t","i">>, <<"g","a","a","n","d">>, <<"b","h","a","d","w","e">>,
    <<"b","h","a","d","w","a">>, <<"c","h","i","n","a","l">>, <<"k","u","t","t","a">>,
    <<"k","u","t","t","i","y","a">>, <<"k","a","m","i","n","a">>, <<"h","a","r","a","m">>,
    <<"c","h","u","d">>, <<"l","e","n","d","i">>, <<"s","a","a","l","a">>,
    <<"s","a","a","l","e">>, <<"f","u","c","k">>,
    <<"m","o","t","h","e","r","f","u","c","k","e","r">>, <<"b","u","l","l","s","h","i","t">>,
    <<"b","a","s","t","a","r","d">>, <<"s","l","u","t">>, <<"w","h","o","r","e">>,
    <<"a","s","s","h","o","l","e">>, <<"d","i","c","k">>, <<"p","u","s","s","y">>,
    <<"b","i","t","c","h">>, <<"c","o","c","k">>, <<"c","u","n","t">>,
    <<"d","i","l","d","o">>, <<"j","e","r","k">>, <<"w","a","n","k","e","r">>,
    <<"r","e","t","a","r","d">>, <<"f","c","k">>, <<"f","u","k">>, <<"f","k">>,
    <<"p","h","u","c","k">>, <<"f","u","q">>, <<"m","c">>, <<"b","c">>, <<"b","s","d","k">>,
    <<"c","h","o","d">>, <<"c","h","0","d">>, <<"k","u","t","t","i">>,
    <<"k","u","t","t","e">>, <<"r","n","d","i">>
>>

\* line 145
SafeWordList == {<<"g","a","n","d","h","i","j","i">>,
                 <<"g","a","n","d","a","g","i">>,
                 <<"g","a","n","d","h","a","k">>}

\* lines 9-17 read three files the repository keeps beside the code; the model
\* loads a small list of each kind.  "good" is both a stopword and a positive
\* word, "not" both a stopword and a negative word, the case line 86 provides for.
StopwordsFile == {<<"t","h","e">>, <<"i","s">>, <<"i">>, <<"g","o","o","d">>, <<"n","o","t">>}
PositiveFile == {<<"g","o","o","d">>, <<"l","o","v","e">>, <<"k","i","n","d">>,
                 <<"h","a","p","p","y">>}
NegativeFile == {<<"b","a","d">>, <<"h","a","t","e">>, <<"u","n","k","i","n","d">>,
                 <<"n","o","t">>}

---------------------------------------------------------------------------
(* preprocess, feedback_classifier.py:70-87 *)

\* the class [a-z0-9@#\*\$\%\&\^\_] of line 81
TokenChars == Range(LowerCase) \cup Digits \cup {"@", "#", "*", "$", "%", "&", "^", "_"}

\* [\U0001F600-\U0001F64F] and [\U0001F300-\U0001F5FF], the members the model uses
Emoticons == {"U1F600"}
Pictographs == {"U1F595", "U1F44D"}

\* the end of the maximal run of token characters that starts at i
RECURSIVE RunEnd(_, _)
RunEnd(text, i) ==
    IF i < Len(text) /\ text[i + 1] \in TokenChars THEN RunEnd(text, i + 1) ELSE i

\* re.findall of lines 80-83, scanning from position i
RECURSIVE FindAll(_, _, _)
FindAll(text, i, tokens) ==
    IF i > Len(text) THEN tokens
    ELSE IF text[i] \in TokenChars
         THEN FindAll(text, RunEnd(text, i) + 1,
                      Append(tokens, SubSeq(text, i, RunEnd(text, i))))
    ELSE IF text[i] \in Emoticons \cup Pictographs
         THEN FindAll(text, i + 1, Append(tokens, <<text[i]>>))
    ELSE FindAll(text, i + 1, tokens)

\* line 86
KeepToken(t) == t \notin stopwords \/ t \in positive_words \/ t \in negative_words

preprocess(text) ==
    SelectSeq(FindAll(Strip(Lower(text)), 1, <<>>), KeepToken)

---------------------------------------------------------------------------
(* TrieNode and Trie, feedback_classifier.py:92-122.  A node is named by   *)
(* the path of characters that leads to it from the root; the trie is the *)
(* function from the nodes that exist to their fields.                    *)

\* TrieNode.__init__
TrieNode == [children |-> {}, is_end_of_word |-> FALSE]

\* Trie.__init__: the root alone
EmptyTrie == (<<>> :> TrieNode)

\* the for loop of lines 104-107, from position i on, standing at node
RECURSIVE InsertLoop(_, _, _, _)
InsertLoop(t, word, i, node) ==
    IF i > Len(word) THEN [t EXCEPT ![node].is_end_of_word = TRUE]
    ELSE LET char == word[i]
             child == Append(node, char)
             t1 == IF char \notin t[node].children
                   THEN [t EXCEPT ![node].children = @ \cup {char}] @@ (child :> TrieNode)
                   ELSE t
         IN  InsertLoop(t1, word, i + 1, child)

\* Trie.insert: the trie after the call
insert(t, word) == InsertLoop(t, word, 1, <<>>)

\* the for loop of lines 116-121, from position i on, standing at node
RECURSIVE SearchLoop(_, _, _, _)
SearchLoop(t, word, i, node) ==
    IF i > Len(word) THEN FALSE
    ELSE LET char == word[i]
             child == Append(node, char)
         IN  IF char \notin t[node].children THEN FALSE
             ELSE IF t[child].is_end_of_word THEN TRUE
             ELSE SearchLoop(t, word, i + 1, child)

\* a variant of search_prefix that asks for the whole token to be a word
search_exact(t, word) == word \in DOMAIN t /\ t[word].is_end_of_word

\* Trie.search_prefix: its return value
search_prefix(t, word) == SearchLoop(t, word, 1, <<>>)

\* a variant of search_prefix that walks the way insert does, creating the nodes
\* it does not find
TrieAfterSearchCreating(t, word) ==
    [p \in DOMAIN insert(t, word) |->
        IF p \in DOMAIN t THEN [insert(t, word)[p] EXCEPT !.is_end_of_word = t[p].is_end_of_word]
        ELSE TrieNode]

\* Trie.search_prefix: the trie after the call (lines 115-122 assign to no node)
TrieAfterSearch(t, word) == t

\* lines 147-149, from the i-th abusive word on (asking for the root makes TLC
\* evaluate one insert before it starts the next; every trie has its root)
RECURSIVE BuildTrie(_, _)
BuildTrie(t, i) ==
    IF i > Len(abusive_words) THEN t
    ELSE LET t1 == insert(t, abusive_words[i])
         IN  IF <<>> \in DOMAIN t1 THEN BuildTrie(t1, i + 1) ELSE t1

---------------------------------------------------------------------------
(* create_obfuscation_regex, feedback_classifier.py:155-173.  The compiled *)
(* pattern of line 172 is                                                  *)
(*     ^ first (?: [\W_]* M1 ... Mk )? [\W_]* last $                       *)
(* with Mi = (?: ch_i | [*#x@\$%&^!]+ )+ for the i-th middle character; a  *)
(* compiled pattern is the record of the three parts that fill it.         *)

\* line 155, the characters of the class
OBFUSCATION == {"*", "#", "x", "@", "$", "%", "&", "^", "!"}

create_obfuscation_regex(word) ==
    [first |-> word[1],
     middle |-> SubSeq(word, 2, Len(word) - 1),
     last |-> word[Len(word)]]

\* re.IGNORECASE: a literal matches the character in either case
MatchesLiteral(c, ch) == LowerChar(c) = LowerChar(ch)

\* the class OBFUSCATION under re.IGNORECASE
MatchesObfuscation(c) == c \in OBFUSCATION \/ LowerChar(c) \in OBFUSCATION

\* the class [\W_]
MatchesFiller(c) == ~IsWordChar(c) \/ c = "_"

\* the positions of token (0..Len) where a match of re.escape(ch) can end when
\* it starts at a position of S
AfterLiteral(token, S, ch) ==
    {p + 1 : p \in {q \in S : q < Len(token) /\ MatchesLiteral(token[q + 1], ch)}}

\* the same for [\W_]*
AfterFiller(token, S) ==
    {p \in 0..Len(token) :
        \E q \in S : q <= p /\ \A k \in (q + 1)..p : MatchesFiller(token[k])}

\* the same for (?:ch|OBFUSCATION)+ of line 170: one or more characters, each
\* ch or a character of the class
AfterMiddleChar(token, S, ch) ==
    {p \in 0..Len(token) :
        \E q \in S : q < p /\ \A k \in (q + 1)..p :
            MatchesLiteral(token[k], ch) \/ MatchesObfuscation(token[k])}

\* the same for middle_pattern, lines 167-170, from its i-th character on
RECURSIVE AfterMiddle(_, _, _, _)
AfterMiddle(token, S, middle, i) ==
    IF i > Len(middle) THEN S
    ELSE AfterMiddle(token, AfterMiddleChar(token, S, middle[i]), middle, i + 1)

\* the same for the optional group (?:[\W_]*middle_pattern)?
AfterGroup(token, S, middle) ==
    S \cup AfterMiddle(token, AfterFiller(token, S), middle, 1)

\* pattern.fullmatch(token), line 277
fullmatch(pattern, token) ==
    Len(token) \in
        AfterLiteral(token,
            AfterFiller(token,
                AfterGroup(token, AfterLiteral(token, {0}, pattern.first), pattern.middle)),
            pattern.last)

\* line 177
BuildPatterns == [i \in DOMAIN abusive_words |-> create_obfuscation_regex(abusive_words[i])]

---------------------------------------------------------------------------
(* Python values that a field of the result can hold *)

PyStr(s) == [type |-> "str", value |-> s]
PyDict(d) == [type |-> "dict", value |-> d]

---------------------------------------------------------------------------
(* analyze_sentiment, feedback_classifier.py:183-255 *)

\* lines 221-224 and 227-230: the entries {"word", "score"} collected from a word set
FuzzyMatches(n, word_set) ==
    {[word |-> w, score |-> Ratio(n, w)] : w \in {v \in word_set : AtThreshold(Ratio(n, v))}}

\* lines 189-192
SentimentStart == [positive_count |-> 0, negative_count |-> 0, details |-> <<>>]

\* one iteration of the loop, lines 194-238: the counts and details after token
SentimentStep(st, token) ==
    LET n == normalize_repeated_chars(Lower(token))
        token_info == [token |-> token, normalized |-> n,
                       exact_positive |-> FALSE, exact_negative |-> FALSE,
                       fuzzy_positive_matches |-> {}, fuzzy_negative_matches |-> {}]
        fuzzy == [token_info EXCEPT
                      !.fuzzy_positive_matches = FuzzyMatches(n, positive_words),
                      !.fuzzy_negative_matches = FuzzyMatches(n, negative_words)]
    IN  IF n \in positive_words
        THEN [st EXCEPT !.positive_count = @ + 1,
                        !.details = Append(@, [token_info EXCEPT !.exact_positive = TRUE])]
        ELSE IF n \in negative_words
        THEN [st EXCEPT !.negative_count = @ + 1,
                        !.details = Append(@, [token_info EXCEPT !.exact_negative = TRUE])]
        ELSE [positive_count |-> st.positive_count
                                 + (IF fuzzy.fuzzy_positive_matches # {} THEN 1 ELSE 0),
              negative_count |-> st.negative_count
                                 + (IF fuzzy.fuzzy_negative_matches # {} THEN 1 ELSE 0),
              details |-> Append(st.details, fuzzy)]

\* a variant of lines 240-245 that resolves a tie to "Positive"
LabelTiePositive(positive_count, negative_count) ==
    IF positive_count >= negative_count THEN "Positive" ELSE "Negative"

\* lines 240-245
Label(positive_count, negative_count) ==
    IF positive_count > negative_count THEN "Positive"
    ELSE IF negative_count > positive_count THEN "Negative"
    ELSE "Neutral"

\* lines 247-255: what analyze_sentiment returns from the state after the loop
SentimentReturn(st, debug) ==
    IF debug
    THEN PyDict([label |-> Label(st.positive_count, st.negative_count),
                 positive_count |-> st.positive_count,
                 negative_count |-> st.negative_count,
                 token_details |-> st.details])
    ELSE PyStr(Label(st.positive_count, st.negative_count))

RECURSIVE SentimentLoop(_, _, _)
SentimentLoop(st, tokens, i) ==
    IF i > Len(tokens) THEN st
    ELSE SentimentLoop(SentimentStep(st, tokens[i]), tokens, i + 1)

analyze_sentiment(tokens, debug) ==
    SentimentReturn(SentimentLoop(SentimentStart, tokens, 1), debug)

---------------------------------------------------------------------------
(* is_abusive, feedback_classifier.py:257-297 *)

\* the emoji of line 282, U+1F595
MiddleFinger == "U1F595"

\* line 267
IsSafeWord(token) == token \in safe_words

\* lines 276-279
AnyPatternMatches(token) == \E k \in DOMAIN patterns : fullmatch(patterns[k], token)

\* a variant of line 282 that looks at the first token only
EmojiFirst(tokens) == tokens[1] = <<MiddleFinger>>

\* line 282
EmojiPresent(tokens) == <<MiddleFinger>> \in Range(tokens)

\* a variant of lines 265-284 that normalizes the token before the trie lookup
IterationNormalizedLookup(tokens, i) ==
    IF IsSafeWord(tokens[i]) THEN FALSE
    ELSE \/ search_prefix(trie, normalize_repeated_chars(tokens[i]))
         \/ AnyPatternMatches(tokens[i])
         \/ EmojiPresent(tokens)

\* a variant of lines 265-284 that asks the trie before it looks for a safe word
IterationTrieFirst(tokens, i) ==
    \/ search_prefix(trie, tokens[i])
    \/ /\ ~IsSafeWord(tokens[i])
       /\ AnyPatternMatches(tokens[i]) \/ EmojiPresent(tokens)

\* one iteration of the loop, lines 265-284: does it return "Abusive" on tokens[i]
IterationReturnsAbusive(tokens, i) ==
    IF IsSafeWord(tokens[i]) THEN FALSE
    ELSE \/ search_prefix(trie, tokens[i])
         \/ AnyPatternMatches(tokens[i])
         \/ EmojiPresent(tokens)

\* the trie after the iteration: a token that is not skipped is looked up
TrieAfterIteration(tokens, i) ==
    IF IsSafeWord(tokens[i]) THEN trie ELSE TrieAfterSearch(trie, tokens[i])

\* line 259
NewResult == [classification |-> "", sentiment |-> PyStr("")]

\* a variant of lines 286-297 without line 287
CleanResultUnset(tokens, debug) ==
    [NewResult EXCEPT !.sentiment = analyze_sentiment(tokens, debug)]

\* lines 286-297: the result of a call whose loop found nothing
CleanResult(tokens, debug) ==
    LET sentiment_analysis == analyze_sentiment(tokens, debug)
        result == [NewResult EXCEPT !.classification = "Clean",
                                    !.sentiment = sentiment_analysis]
    IN  IF debug
        THEN [classification |-> result.classification,
              sentiment |-> result.sentiment,
              tokens |-> tokens,
              details |-> sentiment_analysis]
        ELSE result

\* a caller that is not inside is_abusive
Idle == [pc |-> "idle", text |-> <<>>, debug |-> FALSE, tokens |-> <<>>, i |-> 0,
         result |-> NewResult]

\* lines 258-263: the call starts, tokenizes, and returns at once on no tokens
Call(c, text, debug) ==
    /\ calls[c].pc = "idle"
    /\ LET tokens == preprocess(text)
       IN  calls' = [calls EXCEPT ![c] =
               IF tokens = <<>>
               THEN [pc |-> "done", text |-> text, debug |-> debug, tokens |-> tokens,
                     i |-> 0,
                     result |-> [NewResult EXCEPT
                                    !.classification = "Please give meaningful feedback"]]
               ELSE [pc |-> "loop", text |-> text, debug |-> debug, tokens |-> tokens,
                     i |-> 1, result |-> NewResult]]
    /\ UNCHANGED <<stopwords, positive_words, negative_words, safe_words, trie, patterns,
                   inserted, query, norm, rx, sent>>

\* lines 265-284: one iteration of the loop
Iterate(c) ==
    /\ calls[c].pc = "loop"
    /\ calls[c].i <= Len(calls[c].tokens)
    /\ calls' = [calls EXCEPT ![c] =
           IF IterationReturnsAbusive(calls[c].tokens, calls[c].i)
           THEN [@ EXCEPT !.pc = "done", !.result.classification = "Abusive"]
           ELSE [@ EXCEPT !.i = @ + 1]]
    /\ trie' = TrieAfterIteration(calls[c].tokens, calls[c].i)
    /\ UNCHANGED <<stopwords, positive_words, negative_words, safe_words, patterns,
                   inserted, query, norm, rx, sent>>

\* lines 286-297: the loop is over, the text is clean
Finish(c) ==
    /\ calls[c].pc = "loop"
    /\ calls[c].i > Len(calls[c].tokens)
    /\ calls' = [calls EXCEPT ![c] =
           [@ EXCEPT !.pc = "done",
                     !.result = CleanResult(calls[c].tokens, calls[c].debug)]]
    /\ UNCHANGED <<stopwords, positive_words, negative_words, safe_words, trie, patterns,
                   inserted, query, norm, rx, sent>>

\* the caller takes the result (app.py:31-32) and may call again
Return(c) ==
    /\ calls[c].pc = "done"
    /\ calls' = [calls EXCEPT ![c] = Idle]
    /\ UNCHANGED <<stopwords, positive_words, negative_words, safe_words, trie, patterns,
                   inserted, query, norm, rx, sent>>

\* the loop of lines 265-284 run without interruption from tokens[i] on: does
\* it return "Abusive"
RECURSIVE LoopReturnsAbusive(_, _)
LoopReturnsAbusive(tokens, i) ==
    IF i > Len(tokens) THEN FALSE
    ELSE IF IterationReturnsAbusive(tokens, i) THEN TRUE
    ELSE LoopReturnsAbusive(tokens, i + 1)

\* is_abusive run from its first line to its return with no other call between
is_abusive(text, debug) ==
    LET tokens == preprocess(text)
    IN  IF tokens = <<>>
        THEN [NewResult EXCEPT !.classification = "Please give meaningful feedback"]
        ELSE IF LoopReturnsAbusive(tokens, 1)
        THEN [NewResult EXCEPT !.classification = "Abusive"]
        ELSE CleanResult(tokens, debug)

---------------------------------------------------------------------------
(* The classifier under one caller and under concurrent callers *)

\* the longest text given to is_abusive, in chunks
MaxChunks == 2

\* the concurrent callers of SpecConc
NumCallers == 2

\* pieces of feedback text: upper case and punctuation, a stopword that is a
\* sentiment word and one that is not, a near miss of sentiment words, a safe
\* word, an abusive word as a prefix, an obfuscated and a stretched spelling,
\* the abusive emoji and another
Chunks == {
    <<"G","o","o","d","!">>,
    <<"b","a","d">>,
    <<"t","h","e">>,
    <<"n","k","i","n","d">>,
    <<"g","a","n","d","h","i","j","i">>,
    <<"C","h","u","t","i","y","a">>,
    <<"f","*","*","k">>,
    <<"k","u","t","t","t","a","b">>,
    <<"U1F595">>,
    <<",","U1F600","\t">>
}

RECURSIVE Join(_)
Join(chunks) ==
    IF chunks = <<>> THEN <<>>
    ELSE IF Len(chunks) = 1 THEN chunks[1]
    ELSE chunks[1] \o <<" ">> \o Join(Tail(chunks))

\* the texts of at most n chunks, a space between two chunks
Texts(n) == UNION {{Join(s) : s \in [1..k -> Chunks]} : k \in 0..n}

\* the texts the concurrent callers submit
ConcTexts == {<<>>,
              <<"g","o","o","d">>,
              <<"g","a","n","d","h","i","j","i"," ","f","*","*","k">>}

\* the trie of line 147 after the loop of lines 148-149
LoadedTrie == BuildTrie(EmptyTrie, 1)

\* the module globals as lines 9-17 and 127-177 leave them
Loaded ==
    /\ stopwords = StopwordsFile
    /\ positive_words = PositiveFile
    /\ negative_words = NegativeFile
    /\ safe_words = SafeWordList
    /\ patterns = BuildPatterns

\* no Trie.insert or search_prefix call under test yet
NoTrieCall ==
    /\ inserted = {}
    /\ query = [word |-> <<>>, found |-> FALSE, asked |-> FALSE]

NoNormCall == norm = [word |-> <<>>, out |-> <<>>, pc |-> "idle"]

NoRegexCall == rx = [word |-> <<>>, token |-> <<>>, matched |-> FALSE, pc |-> "idle"]

NoSentimentCall ==
    sent = [tokens |-> <<>>, debug |-> FALSE, i |-> 0, st |-> SentimentStart,
            out |-> PyStr(""), pc |-> "idle"]

Init ==
    /\ Loaded
    /\ trie = LoadedTrie
    /\ calls = [c \in 1..1 |-> Idle]
    /\ NoTrieCall /\ NoNormCall /\ NoRegexCall /\ NoSentimentCall

Next ==
    \/ \E text \in Texts(MaxChunks), debug \in BOOLEAN : Call(1, text, debug)
    \/ Iterate(1)
    \/ Finish(1)
    \/ Return(1)

Spec == Init /\ [][Next]_vars

InitConc ==
    /\ Loaded
    /\ trie = LoadedTrie
    /\ calls = [c \in 1..NumCallers |-> Idle]
    /\ NoTrieCall /\ NoNormCall /\ NoRegexCall /\ NoSentimentCall

NextConc ==
    \/ \E c \in 1..NumCallers, text \in ConcTexts, debug \in BOOLEAN : Call(c, text, debug)
    \/ \E c \in 1..NumCallers : Iterate(c)
    \/ \E c \in 1..NumCallers : Finish(c)
    \/ \E c \in 1..NumCallers : Return(c)

SpecConc == InitConc /\ [][NextConc]_vars

---------------------------------------------------------------------------
(* normalize_repeated_chars on its own *)

\* the longest word given to normalize_repeated_chars
MaxNormLen == 6

NormAlphabet == {"a", "b"}

\* the sequences over alphabet of length at most n
Strings(alphabet, n) == UNION {[1..k -> alphabet] : k \in 0..n}

InitNorm ==
    /\ Loaded
    /\ trie = EmptyTrie
    /\ calls = <<>>
    /\ NoTrieCall /\ NoRegexCall /\ NoSentimentCall
    /\ \E word \in Strings(NormAlphabet, MaxNormLen) :
           norm = [word |-> word, out |-> <<>>, pc |-> "start"]

Normalize ==
    /\ norm.pc = "start"
    /\ norm' = [norm EXCEPT !.out = normalize_repeated_chars(norm.word), !.pc = "done"]
    /\ UNCHANGED <<stopwords, positive_words, negative_words, safe_words, trie, patterns,
                   calls, inserted, query, rx, sent>>

NextNorm == Normalize

SpecNorm == InitNorm /\ [][NextNorm]_vars

---------------------------------------------------------------------------
(* Trie on its own: any inserts, any queries *)

\* the longest word inserted
MaxWordLen == 2

\* the number of distinct words inserted
MaxInserts == 2

TrieAlphabet == {"a", "b"}

InitTrie ==
    /\ Loaded
    /\ trie = EmptyTrie
    /\ calls = <<>>
    /\ NoTrieCall /\ NoNormCall /\ NoRegexCall /\ NoSentimentCall

Insert(word) ==
    /\ Cardinality(inserted \cup {word}) <= MaxInserts
    /\ trie' = insert(trie, word)
    /\ inserted' = inserted \cup {word}
    /\ query' = [word |-> <<>>, found |-> FALSE, asked |-> FALSE]
    /\ UNCHANGED <<stopwords, positive_words, negative_words, safe_words, patterns,
                   calls, norm, rx, sent>>

Search(word) ==
    /\ query' = [word |-> word, found |-> search_prefix(trie, word), asked |-> TRUE]
    /\ trie' = TrieAfterSearch(trie, word)
    /\ UNCHANGED <<stopwords, positive_words, negative_words, safe_words, patterns,
                   calls, inserted, norm, rx, sent>>

NextTrie ==
    \/ \E word \in Strings(TrieAlphabet, MaxWordLen) : Insert(word)
    \/ \E word \in Strings(TrieAlphabet, MaxWordLen + 1) : Search(word)

SpecTrie == InitTrie /\ [][NextTrie]_vars

---------------------------------------------------------------------------
(* One obfuscation pattern on its own *)

\* the longest token matched against a pattern
MaxTokenLen == 4

RegexWords == {<<"f","u","c","k">>, <<"f","k">>, <<"c","h","u","t">>}

RegexAlphabet == {"f", "u", "c", "k", "*", "x", "_"}

InitRegex ==
    /\ Loaded
    /\ trie = EmptyTrie
    /\ calls = <<>>
    /\ NoTrieCall /\ NoNormCall /\ NoSentimentCall
    /\ \E word \in RegexWords, token \in Strings(RegexAlphabet, MaxTokenLen) :
           rx = [word |-> word, token |-> token, matched |-> FALSE, pc |-> "start"]

Match ==
    /\ rx.pc = "start"
    /\ rx' = [rx EXCEPT !.matched = fullmatch(create_obfuscation_regex(rx.word), rx.token),
                        !.pc = "done"]
    /\ UNCHANGED <<stopwords, positive_words, negative_words, safe_words, trie, patterns,
                   calls, inserted, query, norm, sent>>

NextRegex == Match

SpecRegex == InitRegex /\ [][NextRegex]_vars

---------------------------------------------------------------------------
(* analyze_sentiment on its own, one loop iteration a step *)

\* the longest token sequence given to analyze_sentiment
MaxSentTokens == 2

SentTokens == {
    <<"g","o","o","d">>,
    <<"k","i","n","d">>,
    <<"g","o","o","o","d">>,
    <<"b","a","d">>,
    <<"n","o","t">>,
    <<"n","k","i","n","d">>,
    <<"h","a","p","p","i">>,
    <<"h","e","l","l","o">>,
    <<"U1F600">>
}

InitSent ==
    /\ Loaded
    /\ trie = EmptyTrie
    /\ calls = <<>>
    /\ NoTrieCall /\ NoNormCall /\ NoRegexCall
    /\ \E tokens \in Strings(SentTokens, MaxSentTokens), debug \in BOOLEAN :
           sent = [tokens |-> tokens, debug |-> debug, i |-> 1, st |-> SentimentStart,
                   out |-> PyStr(""), pc |-> "loop"]

\* lines 194-238, one token
SentimentIterate ==
    /\ sent.pc = "loop"
    /\ sent.i <= Len(sent.tokens)
    /\ sent' = [sent EXCEPT !.st = SentimentStep(sent.st, sent.tokens[sent.i]),
                            !.i = @ + 1]
    /\ UNCHANGED <<stopwords, positive_words, negative_words, safe_words, trie, patterns,
                   calls, inserted, query, norm, rx>>

\* lines 240-255
SentimentFinish ==
    /\ sent.pc = "loop"
    /\ sent.i > Len(sent.tokens)
    /\ sent' = [sent EXCEPT !.out = SentimentReturn(sent.st, sent.debug), !.pc = "done"]
    /\ UNCHANGED <<stopwords, positive_words, negative_words, safe_words, trie, patterns,
                   calls, inserted, query, norm, rx>>

NextSent == SentimentIterate \/ SentimentFinish

SpecSent == InitSent /\ [][NextSent]_vars

---------------------------------------------------------------------------
(* Properties *)

IsPrefix(w, token) == Len(w) <= Len(token) /\ SubSeq(token, 1, Len(w)) = w

\* some abusive word of lines 127-143 is a leading substring of token
HasAbusivePrefix(token) == \E k \in DOMAIN abusive_words : IsPrefix(abusive_words[k], token)

\* some pattern built from an abusive word matches the whole token
SomePatternMatches(token) ==
    \E k \in DOMAIN abusive_words :
        fullmatch(create_obfuscation_regex(abusive_words[k]), token)

Classifications == {"Abusive", "Clean", "Please give meaningful feedback"}

SentimentLabels == {"Positive", "Negative", "Neutral"}

Done(c) == calls[c].pc = "done"

\* C1: a safe-word token never yields "Abusive": the iteration that looks at a
\* safe word leaves the classification unset whatever the trie and the patterns
\* say of the token, and a text whose tokens are all safe words is never
\* classified "Abusive"
C1_SafeWordExempt ==
    /\ [](Done(1) /\ (\A k \in DOMAIN calls[1].tokens : calls[1].tokens[k] \in SafeWordList)
            => calls[1].result.classification # "Abusive")
    /\ [][calls[1].pc = "loop" /\ calls[1].i <= Len(calls[1].tokens)
            /\ calls[1].tokens[calls[1].i] \in SafeWordList
          => /\ calls'[1].result.classification # "Abusive"
             /\ calls'[1].pc = "loop"
             /\ calls'[1].i = calls[1].i + 1]_vars

\* C1 witness: a text of safe words only, one of which the trie holds a prefix
\* of, came back "Clean"
C1_Witness ==
    /\ Done(1)
    /\ calls[1].tokens # <<>>
    /\ \A k \in DOMAIN calls[1].tokens : calls[1].tokens[k] \in SafeWordList
    /\ \E k \in DOMAIN calls[1].tokens : search_prefix(trie, calls[1].tokens[k])
    /\ calls[1].result.classification = "Clean"

\* C2 as stated: for both values of debug the sentiment field of the result is
\* one of the three labels when the classification is "Clean" and is empty
\* otherwise
C2_SentimentIsLabel ==
    Done(1) =>
        IF calls[1].result.classification = "Clean"
        THEN calls[1].result.sentiment \in {PyStr(l) : l \in SentimentLabels}
        ELSE calls[1].result.sentiment = PyStr("")

\* C5 as stated: a token that is not a safe word and whose normalized form has
\* an abusive word as a prefix makes the classification "Abusive"
C5_NormalizedBeforeTrie ==
    Done(1) /\ (\E k \in DOMAIN calls[1].tokens :
                    /\ calls[1].tokens[k] \notin SafeWordList
                    /\ HasAbusivePrefix(normalize_repeated_chars(calls[1].tokens[k])))
        => calls[1].result.classification = "Abusive"

\* C5 amended: the trie lookup of the classification is on the raw token, not
\* on its normalized form: the iteration on a token that is not a safe word
\* returns "Abusive" exactly when the raw token has an abusive word as a
\* prefix, or a pattern fully matches the raw token, or the emoji is a token;
\* what the normalized form has as a prefix does not count
C5_RawTokenLookup ==
    [][calls[1].pc = "loop" /\ calls[1].i <= Len(calls[1].tokens)
         /\ calls[1].tokens[calls[1].i] \notin SafeWordList
       => LET token == calls[1].tokens[calls[1].i]
          IN  (calls'[1].pc = "done" /\ calls'[1].result.classification = "Abusive")
                <=> \/ HasAbusivePrefix(token)
                    \/ SomePatternMatches(token)
                    \/ <<MiddleFinger>> \in Range(calls[1].tokens)]_vars

\* C5 witness: a token whose normalized form alone has an abusive prefix, with a
\* stopword before it, came back "Clean"
C5_Witness ==
    /\ Done(1)
    /\ calls[1].result.classification = "Clean"
    /\ Len(calls[1].text) > Len(calls[1].tokens[1])
    /\ \E k \in DOMAIN calls[1].tokens :
           /\ ~HasAbusivePrefix(calls[1].tokens[k])
           /\ HasAbusivePrefix(normalize_repeated_chars(calls[1].tokens[k]))

\* C6: is_abusive terminates and classifies: a call in its loop always has a
\* step to take, every step returns or moves to the next token (so the loop
\* takes at most Len(tokens) + 1 steps), the classification returned is one of
\* the three values, and it is "Please give meaningful feedback" exactly when
\* no token is left after stopword filtering
C6_TotalClassification ==
    /\ [](Done(1) =>
            /\ calls[1].result.classification \in Classifications
            /\ calls[1].result.classification = "Please give meaningful feedback"
                 <=> preprocess(calls[1].text) = <<>>)
    /\ [](calls[1].pc = "loop" => calls[1].i \in 1..(Len(calls[1].tokens) + 1))
    /\ [][calls[1].pc = "loop" =>
            \/ calls'[1].pc = "done"
            \/ calls'[1].pc = "loop" /\ calls'[1].i = calls[1].i + 1
                                     /\ calls'[1].tokens = calls[1].tokens]_vars

\* C6 witness: a text of stopwords only got the dedicated classification
C6_Witness ==
    /\ Done(1)
    /\ calls[1].text # <<>>
    /\ calls[1].result.classification = "Please give meaningful feedback"
    /\ \E k \in DOMAIN calls[1].text : calls[1].text[k] \in TokenChars

\* C10: on a non-empty token sequence the result is "Abusive" exactly when a
\* token that is not a safe word has an abusive word as a prefix or is fully
\* matched by a pattern, or the middle-finger emoji is a token at any position;
\* it is "Clean" otherwise
C10_AbusiveExactly ==
    Done(1) /\ calls[1].tokens # <<>> =>
        LET tokens == calls[1].tokens
            abusive ==
                \/ \E k \in DOMAIN tokens :
                       /\ tokens[k] \notin SafeWordList
                       /\ HasAbusivePrefix(tokens[k]) \/ SomePatternMatches(tokens[k])
                \/ \E k \in DOMAIN tokens : tokens[k] = <<MiddleFinger>>
        IN  calls[1].result.classification = IF abusive THEN "Abusive" ELSE "Clean"

\* C10 witness: the emoji after a safe word, no other token, came back "Abusive"
C10_Witness ==
    /\ Done(1)
    /\ Len(calls[1].tokens) = 2
    /\ calls[1].tokens[1] \in SafeWordList
    /\ calls[1].tokens[2] = <<MiddleFinger>>
    /\ calls[1].result.classification = "Abusive"

\* the positions of word that survive when every maximal run of identical
\* characters is cut to its first two
KeptPositions(word) ==
    {k \in DOMAIN word : ~(k > 2 /\ word[k - 1] = word[k] /\ word[k - 2] = word[k])}

\* word restricted to a set of its positions, in order
RECURSIVE Restrict(_, _, _)
Restrict(word, keep, k) ==
    IF k > Len(word) THEN <<>>
    ELSE (IF k \in keep THEN <<word[k]>> ELSE <<>>) \o Restrict(word, keep, k + 1)

\* C8: normalize_repeated_chars cuts each maximal run of n identical characters
\* to min(n, 2) and changes nothing else; its output has no three identical
\* consecutive characters, the empty string gives the empty string, and the
\* output is a fixed point of the normalizer
C8_RunsCutToTwo ==
    norm.pc = "done" =>
        /\ norm.out = Restrict(norm.word, KeptPositions(norm.word), 1)
        /\ \A k \in 1..(Len(norm.out) - 2) :
               ~(norm.out[k] = norm.out[k + 1] /\ norm.out[k + 1] = norm.out[k + 2])
        /\ norm.word = <<>> => norm.out = <<>>
        /\ normalize_repeated_chars(norm.out) = norm.out

\* C8 witness: a word with a run of four and a run of two came out with both
\* runs of length two
C8_Witness ==
    /\ norm.pc = "done"
    /\ norm.word = <<"a", "a", "a", "a", "b", "b">>
    /\ norm.out = <<"a", "a", "b", "b">>

\* C4: search_prefix(token) is true exactly when some inserted non-empty word
\* is a prefix of token, and the trie is the trie of the inserted words after
\* any number of queries (a query changes no node)
C4_PrefixSearch ==
    /\ query.asked =>
           (query.found <=> \E w \in inserted : w # <<>> /\ IsPrefix(w, query.word))
    /\ DOMAIN trie = {p \in Strings(TrieAlphabet, MaxWordLen) :
                          \E w \in inserted \cup {<<>>} : IsPrefix(p, w)}
    /\ \A p \in DOMAIN trie :
           /\ trie[p].is_end_of_word <=> p \in inserted
           /\ trie[p].children = {c \in TrieAlphabet : Append(p, c) \in DOMAIN trie}

\* C4 witness: a token that is no inserted word was found by a proper prefix of
\* it, in a trie that also holds the empty word; the prefix cut by one
\* character is not found
C4_Witness ==
    /\ query.asked
    /\ query.found
    /\ query.word \notin inserted
    /\ <<>> \in inserted
    /\ \E w \in inserted :
           /\ Len(w) > 1
           /\ IsPrefix(w, query.word)
           /\ ~search_prefix(trie, SubSeq(w, 1, Len(w) - 1))

\* a token is a symbol-obfuscated spelling of word: the first character, then
\* optional filler, then each middle character as itself or as one or more
\* obfuscation symbols, then optional filler, then the last character
RECURSIVE SpellingEnds(_, _, _, _)
SpellingEnds(token, S, middle, k) ==
    IF k > Len(middle) THEN S
    ELSE SpellingEnds(token,
             {p + 1 : p \in {q \in S : q < Len(token) /\ token[q + 1] = middle[k]}}
               \cup {p \in 0..Len(token) :
                        \E q \in S : q < p /\ \A j \in (q + 1)..p : token[j] \in OBFUSCATION},
             middle, k + 1)

IsObfuscatedSpelling(word, token) ==
    LET fill(S) == {p \in 0..Len(token) :
                       \E q \in S : q <= p /\ \A j \in (q + 1)..p : MatchesFiller(token[j])}
        lit(S, ch) == {p + 1 : p \in {q \in S : q < Len(token) /\ token[q + 1] = ch}}
    IN  Len(token) \in
            lit(fill(SpellingEnds(token, fill(lit({0}, word[1])),
                                  SubSeq(word, 2, Len(word) - 1), 1)),
                word[Len(word)])

\* C3 as stated: the pattern built for a word fully matches a token if and only
\* if the token is a symbol-obfuscated spelling of that word
C3_MatchesExactlySpellings ==
    rx.pc = "done" => (rx.matched <=> IsObfuscatedSpelling(rx.word, rx.token))

\* the label a return value of analyze_sentiment carries
LabelOf(out) == IF out.type = "str" THEN out.value ELSE out.value.label

\* C7: the label is "Positive" exactly when the positive count is the greater,
\* "Negative" exactly when the negative count is the greater, "Neutral" on a
\* tie; a token adds at most 1 to each count; a token whose normalized form is
\* a positive word adds 1 to the positive count alone and one whose normalized
\* form is a negative word (and no positive word) 1 to the negative count
\* alone, with no fuzzy match collected; any other token adds 1 to each count
\* for which a word of similarity at least 0.8 exists
C7_SentimentCounts ==
    /\ [](sent.pc = "done" =>
            LET p == sent.st.positive_count
                n == sent.st.negative_count
            IN  /\ LabelOf(sent.out) = "Positive" <=> p > n
                /\ LabelOf(sent.out) = "Negative" <=> n > p
                /\ LabelOf(sent.out) = "Neutral" <=> p = n
                /\ p <= Len(sent.tokens) /\ n <= Len(sent.tokens))
    /\ [][sent.pc = "loop" /\ sent'.i = sent.i + 1 =>
            LET w == normalize_repeated_chars(sent.tokens[sent.i])
                dp == sent'.st.positive_count - sent.st.positive_count
                dn == sent'.st.negative_count - sent.st.negative_count
                info == sent'.st.details[sent.i]
            IN  /\ dp \in {0, 1} /\ dn \in {0, 1}
                /\ w \in PositiveFile => dp = 1 /\ dn = 0
                /\ w \in NegativeFile \ PositiveFile => dp = 0 /\ dn = 1
                /\ w \in PositiveFile \cup NegativeFile =>
                       /\ info.fuzzy_positive_matches = {}
                       /\ info.fuzzy_negative_matches = {}
                /\ w \notin PositiveFile \cup NegativeFile =>
                       /\ dp = 1 <=> \E v \in PositiveFile : AtThreshold(Ratio(w, v))
                       /\ dn = 1 <=> \E v \in NegativeFile : AtThreshold(Ratio(w, v))]_vars

\* C7 witness: a token with no exact match counted on both sides, next to a
\* token whose exact positive match kept a fuzzy negative match from counting;
\* the label follows the greater count
C7_Witness ==
    /\ sent.pc = "done"
    /\ sent.tokens = <<<<"n","k","i","n","d">>, <<"k","i","n","d">>>>
    /\ sent.st.positive_count = 2
    /\ sent.st.negative_count = 1
    /\ LabelOf(sent.out) = "Positive"
    /\ AtThreshold(Ratio(<<"k","i","n","d">>, <<"u","n","k","i","n","d">>))

\* C9: calls do not interfere: whatever the interleaving, a call returns what
\* is_abusive returns on its text when run alone, two calls on the same text
\* return the same result, and the trie, the patterns and the word sets are as
\* loaded
C9_CallsDoNotInterfere ==
    /\ \A c \in DOMAIN calls :
           Done(c) => calls[c].result = is_abusive(calls[c].text, calls[c].debug)
    /\ \A c, d \in DOMAIN calls :
           Done(c) /\ Done(d) /\ calls[c].text = calls[d].text
                   /\ calls[c].debug = calls[d].debug
               => calls[c].result = calls[d].result
    /\ trie = LoadedTrie
    /\ patterns = BuildPatterns
    /\ stopwords = StopwordsFile
    /\ positive_words = PositiveFile
    /\ negative_words = NegativeFile
    /\ safe_words = SafeWordList

\* C9 witness: two calls on the same text are done with the same result while
\* the trie has been searched
C9_Witness ==
    /\ Done(1) /\ Done(2)
    /\ calls[1].text = calls[2].text
    /\ calls[1].debug = calls[2].debug
    /\ calls[1].tokens # <<>>
    /\ calls[1].result = calls[2].result
    /\ calls[1].result.classification = "Abusive"

=============================================================================
